---------------------------- MODULE Spec2Model ----------------------------
(***************************************************************************)
(* Model of s3_reader.File (src/src/s3_reader/file.py): a path that is     *)
(* either local or an S3 reference; an S3 reference is downloaded into a   *)
(* NamedTemporaryFile during construction and the temp file is closed      *)
(* (and so deleted) by __del__.                                            *)
(*                                                                         *)
(* Strings are sequences of one-character strings, so that split,          *)
(* startswith, "in" and pathlib's normalisation are computed character by  *)
(* character as Python computes them.  pathlib is modelled for POSIX       *)
(* (PurePosixPath).                                                        *)
(***************************************************************************)
EXTENDS Naturals, Sequences, FiniteSets, TLC

VARIABLES
    pc,            \* "init" | "constructed" | "raised" | "deleted": life of the one File instance
    orig_path,     \* self.orig_path: the path as given to the constructor
    path,          \* self.path
    tmp_file,      \* self.tmp_file: None or Some([name, closed])
    temp_file,     \* the local temp_file of download_s3_file still alive after a raise: None or Some(name)
    exception,     \* the exception __post_init__ raised ("None" when it returned)
    random_state,  \* the process-wide state of module random
    fs,            \* the local filesystem: file name -> contents
    calls,         \* bucket.download_file calls recorded by the collaborator
    session_log    \* random state left behind by each Session(...) construction

vars == <<pc, orig_path, path, tmp_file, temp_file, exception, random_state,
          fs, calls, session_log>>

-----------------------------------------------------------------------------
(* Bounds *)

\* largest number of '/'-separated segments appended to a prefix to form an input
MaxSegs == 3

\* number of distinct states of the process-wide random generator
NumRandomStates == 2

-----------------------------------------------------------------------------
(* Python values *)

None == <<>>
Some(x) == <<x>>

SLASH == <<"/">>
DOT == <<".">>
COLON_SLASH == <<":", "/">>
S3_COLON == <<"s", "3", ":">>

-----------------------------------------------------------------------------
(* str operations *)

\* sub == s[i : i + len(sub)]
MatchAt(s, sub, i) ==
    /\ i + Len(sub) - 1 <= Len(s)
    /\ SubSeq(s, i, i + Len(sub) - 1) = sub

\* s.find(sub), 1-based; 0 when sub does not occur
Find(s, sub) ==
    IF \E i \in 1..Len(s) : MatchAt(s, sub, i)
    THEN CHOOSE i \in 1..Len(s) :
            /\ MatchAt(s, sub, i)
            /\ \A j \in 1..(i - 1) : ~MatchAt(s, sub, j)
    ELSE 0

\* sub in s
Contains(s, sub) == Find(s, sub) # 0

\* s.startswith(prefix)
StartsWith(s, prefix) == MatchAt(s, prefix, 1)

\* s.split(sep), sep non-empty: left to right, non-overlapping
RECURSIVE Split(_, _)
Split(s, sep) ==
    LET i == Find(s, sep) IN
    IF i = 0 THEN <<s>>
    ELSE <<SubSeq(s, 1, i - 1)>> \o Split(SubSeq(s, i + Len(sep), Len(s)), sep)

\* sep.join(parts)
RECURSIVE Join(_, _)
Join(parts, sep) ==
    IF parts = <<>> THEN <<>>
    ELSE IF Len(parts) = 1 THEN parts[1]
    ELSE parts[1] \o sep \o Join(Tail(parts), sep)

Last(seq) == seq[Len(seq)]

-----------------------------------------------------------------------------
(* pathlib *)

IsPathPart(x) == x # <<>> /\ x # DOT

\* str(Path(s)) on POSIX: empty and "." segments are dropped, ".." is kept,
\* a leading "/" is kept, exactly two leading slashes are kept as "//",
\* and the empty path is "."
PathStr(s) ==
    LET parts == SelectSeq(Split(s, SLASH), IsPathPart)
        root  == IF ~StartsWith(s, SLASH) THEN <<>>
                 ELSE IF StartsWith(s, SLASH \o SLASH)
                         /\ ~StartsWith(s, SLASH \o SLASH \o SLASH)
                      THEN SLASH \o SLASH
                      ELSE SLASH
    IN  IF root = <<>> /\ parts = <<>> THEN DOT
        ELSE root \o Join(parts, SLASH)

-----------------------------------------------------------------------------
(* File.fix_path, File.extract_s3_info *)

fix_path(p) ==
    IF p = <<>> THEN <<>>
    ELSE IF Contains(p, COLON_SLASH)
         THEN LET pathes == Split(p, COLON_SLASH)
              IN  pathes[1] \o COLON_SLASH \o PathStr(pathes[2])
         ELSE PathStr(p)

\* split_path[2] raises IndexError when the split has fewer than 3 elements
extract_s3_info_raises(p) == Len(Split(p, SLASH)) < 3

\* <<bucket_name, file_name, file_extension>>
extract_s3_info(p) ==
    LET split_path == Split(p, SLASH)
    IN  << split_path[3],
           Join(SubSeq(split_path, 4, Len(split_path)), SLASH),
           Last(Split(Last(split_path), DOT)) >>

-----------------------------------------------------------------------------
(* Inputs and environment *)

\* what an input path starts with: nothing (a local path) or an s3 scheme
\* followed by no, one or two slashes
Prefixes == { <<>>, S3_COLON, S3_COLON \o SLASH, S3_COLON \o SLASH \o SLASH }

\* the segments inputs are made of: empty (a doubled slash), a plain name,
\* a name with an extension, ".", and a name ending in ":" (so that a
\* following slash forms a second ":/")
Segs == { <<>>, <<"a">>, <<"b", ".", "c">>, DOT, <<"a", ":">> }

SegSeqs == UNION { [1..n -> Segs] : n \in 0..MaxSegs }

Inputs == { pre \o Join(ss, SLASH) : pre \in Prefixes, ss \in SegSeqs }

RandomStates == 0..(NumRandomStates - 1)

\* where the environment makes download_s3_file fail
Faults == { "None", "OSError", "SessionError", "ClientError" }

\* files present on the local filesystem before the program runs
LocalFiles == { <<"a">> }

\* what the stub collaborator writes to the destination
KNOWN_BYTES == "known bytes"

TMP_PREFIX == <<"/", "t", "m", "p", "/", "t", "m", "p", "x">>

Exists(fsys, name) == name \in DOMAIN fsys

Remove(fsys, name) == [n \in DOMAIN fsys \ {name} |-> fsys[n]]

Write(fsys, name, bytes) ==
    [n \in DOMAIN fsys \cup {name} |-> IF n = name THEN bytes ELSE fsys[n]]

-----------------------------------------------------------------------------
(* The steps of download_s3_file and __del__ *)

\* the remote test of __post_init__
is_s3(p) == StartsWith(p, S3_COLON)

\* tempfile.NamedTemporaryFile(suffix=...).name
NamedTemporaryFile(suffix) == TMP_PREFIX \o suffix

\* download_file with the bucket and the key exchanged
download_file_swapped(bucket_name, file_name, filename) ==
    <<file_name, bucket_name, filename>>

\* s3.Bucket(bucket_name).download_file(file_name, temp_file.name), as the
\* collaborator records it: <<container, object key, destination>>
download_file(bucket_name, file_name, filename) ==
    <<bucket_name, file_name, filename>>

\* download_s3_file without its random.setstate(state)
setstate_skipped(state, current) == current

\* the process-wide random state after random.setstate(state)
setstate(state, current) == state

\* __post_init__ dropping what download_s3_file returns
returned_self_path(self_path, name) == self_path

\* what download_s3_file returns and __post_init__ assigns to self.path
returned_path(self_path, name) == name

\* a temp file made with delete=False: closing it leaves it on disk
close_keeps_file(fsys, name) == fsys

\* tmp_file.close(): a NamedTemporaryFile is deleted when it is closed
close(fsys, name) == Remove(fsys, name)

-----------------------------------------------------------------------------
(* Actions *)

Init ==
    /\ pc = "init"
    /\ orig_path = <<>>
    /\ path = <<>>
    /\ tmp_file = None
    /\ temp_file = None
    /\ exception = "None"
    /\ random_state \in RandomStates
    /\ fs = [n \in LocalFiles |-> "local file"]
    /\ calls = <<>>
    /\ session_log = <<>>

\* download_s3_file on self.path = p, the environment failing at `fault`
\* (or nowhere) and Session construction leaving the random state at r
download_s3_file(p, fault, r) ==
    LET state == random_state
        info  == extract_s3_info(p)
        name  == NamedTemporaryFile(DOT \o info[3])
        call  == download_file(info[1], info[2], name)
    IN
    IF extract_s3_info_raises(p) \/ fault = "OSError"
    THEN \* raised before any temp file exists
         /\ pc' = "raised"
         /\ exception' = IF extract_s3_info_raises(p) THEN "IndexError" ELSE fault
         /\ path' = p
         /\ UNCHANGED <<tmp_file, temp_file, random_state, fs, calls, session_log>>
    ELSE IF fault = "SessionError"
    THEN \* Session(...) raised: the temp file is allocated, self.tmp_file is not set
         /\ pc' = "raised"
         /\ exception' = fault
         /\ path' = p
         /\ temp_file' = Some(name)
         /\ fs' = Write(fs, name, "")
         /\ random_state' = r
         /\ session_log' = Append(session_log, r)
         /\ UNCHANGED <<tmp_file, calls>>
    ELSE IF fault = "ClientError"
    THEN \* download_file raised
         /\ pc' = "raised"
         /\ exception' = fault
         /\ path' = p
         /\ temp_file' = Some(name)
         /\ fs' = Write(fs, name, "")
         /\ random_state' = r
         /\ session_log' = Append(session_log, r)
         /\ calls' = Append(calls, call)
         /\ UNCHANGED tmp_file
    ELSE \* normal return
         /\ pc' = "constructed"
         /\ exception' = "None"
         /\ path' = returned_path(p, name)
         /\ tmp_file' = Some([name |-> name, closed |-> FALSE])
         /\ fs' = Write(fs, name, KNOWN_BYTES)
         /\ random_state' = setstate(state, r)
         /\ session_log' = Append(session_log, r)
         /\ calls' = Append(calls, call)
         /\ UNCHANGED temp_file

__post_init__ ==
    /\ pc = "init"
    /\ \E p \in Inputs, fault \in Faults, r \in RandomStates :
          /\ orig_path' = p
          /\ IF is_s3(fix_path(p))
             THEN download_s3_file(fix_path(p), fault, r)
             ELSE /\ pc' = "constructed"
                  /\ path' = fix_path(p)
                  /\ UNCHANGED <<tmp_file, temp_file, exception, random_state,
                                 fs, calls, session_log>>

__del__ ==
    /\ pc \in {"constructed", "raised"}
    /\ pc' = "deleted"
    /\ IF tmp_file # None
       THEN /\ tmp_file' = Some([tmp_file[1] EXCEPT !.closed = TRUE])
            /\ fs' = close(fs, tmp_file[1].name)
       ELSE UNCHANGED <<tmp_file, fs>>
    /\ UNCHANGED <<orig_path, path, temp_file, exception, random_state,
                   calls, session_log>>

\* the temp_file local left behind by a raising download_s3_file is a
\* NamedTemporaryFile nothing refers to: the interpreter finalizes it at
\* some point, which closes and deletes the file
temp_file_finalizer ==
    /\ temp_file # None
    /\ fs' = close(fs, temp_file[1])
    /\ temp_file' = None
    /\ UNCHANGED <<pc, orig_path, path, tmp_file, exception, random_state,
                   calls, session_log>>

Next == __post_init__ \/ __del__ \/ temp_file_finalizer

Spec == Init /\ [][Next]_vars

-----------------------------------------------------------------------------
(* Vocabulary of the properties *)

\* the instance has been constructed (or construction has raised)
Constructed == pc # "init"

\* the normalized input is what __post_init__ would hand to download_s3_file
NormalizedInput == fix_path(orig_path)

\* the input is treated as remote: its normalized form starts with "s3:"
RemoteInput == StartsWith(NormalizedInput, S3_COLON)

\* a segment that names something: not empty and not "."
IsNamedSegment(x) == x # <<>> /\ x # <<".">>

NonEmpty(x) == x # <<>>

\* the text of s after its first occurrence of sub (sub occurs in s)
After(s, sub) == SubSeq(s, Find(s, sub) + Len(sub), Len(s))

\* the text of s before its first occurrence of sub (sub occurs in s)
Before(s, sub) == SubSeq(s, 1, Find(s, sub) - 1)

\* the temp files on disk
TempFilesOnDisk == DOMAIN fs \ LocalFiles

-----------------------------------------------------------------------------
(* C1 *)

\* C1: for every input without ":/", construction completes with
\* path = fix_path(input), tmp_file stays None, no temp file is created and
\* the collaborator (Session, download_file) is never called.
C1_LocalInputIsNeverDownloaded ==
    (Constructed /\ ~Contains(orig_path, COLON_SLASH)) =>
        /\ exception = "None"
        /\ path = fix_path(orig_path)
        /\ tmp_file = None
        /\ TempFilesOnDisk = {}
        /\ calls = <<>>
        /\ session_log = <<>>

-----------------------------------------------------------------------------
(* C2 *)

\* C2: after the construction from a remote input, download_file has been
\* called exactly once, with the bucket and key extract_s3_info derives from
\* the normalized input and with the temp file as destination; path names
\* that temp file, which holds the bytes the collaborator wrote and whose
\* name ends in "." followed by the parsed extension.
C2_DownloadedOnceIntoTempFile ==
    (pc = "constructed" /\ RemoteInput) =>
        LET info == extract_s3_info(NormalizedInput) IN
        /\ Len(calls) = 1
        /\ calls[1][1] = info[1]
        /\ calls[1][2] = info[2]
        /\ calls[1][3] = path
        /\ Exists(fs, path)
        /\ fs[path] = KNOWN_BYTES
        /\ tmp_file # None
        /\ tmp_file[1].name = path
        /\ Len(path) > Len(info[3])
        /\ SubSeq(path, Len(path) - Len(info[3]), Len(path)) = DOT \o info[3]

\* a remote input with a bucket, a key and an extension has been downloaded
C2_Witness ==
    /\ pc = "constructed"
    /\ RemoteInput
    /\ Len(calls) = 1
    /\ calls[1][1] = <<"a">>
    /\ calls[1][2] = <<"a", "/", "b", ".", "c">>
    /\ path = TMP_PREFIX \o <<".", "c">>
    /\ fs[path] = KNOWN_BYTES

-----------------------------------------------------------------------------
(* C3 *)

\* C3: for an instance constructed from a remote input, the temp file is on
\* disk from the end of construction until __del__ has run, and is not on
\* disk once __del__ has run.
C3_TempFileLivesUntilDel ==
    (RemoteInput /\ exception = "None") =>
        /\ pc = "constructed" => /\ tmp_file # None
                                 /\ ~tmp_file[1].closed
                                 /\ Exists(fs, tmp_file[1].name)
        /\ pc = "deleted" => /\ tmp_file # None
                             /\ tmp_file[1].closed
                             /\ ~Exists(fs, tmp_file[1].name)
                             /\ ~Exists(fs, path)

\* __del__ has run on an instance that held a temp file
C3_Witness ==
    /\ pc = "deleted"
    /\ RemoteInput
    /\ exception = "None"
    /\ tmp_file # None
    /\ path = tmp_file[1].name
    /\ Len(calls) = 1

-----------------------------------------------------------------------------
(* C4 *)

\* C4: a construction from a remote input that completes leaves the
\* process-wide random state as it was immediately before the construction.
C4_RandomStateKeptBySuccessfulConstruction ==
    [][(pc = "init" /\ pc' = "constructed" /\ tmp_file' # None)
          => random_state' = random_state]_vars

\* a remote construction completed although Session construction had left
\* the random state different from what it is now
C4_Witness ==
    /\ pc = "constructed"
    /\ tmp_file # None
    /\ Len(session_log) = 1
    /\ session_log[1] # random_state

-----------------------------------------------------------------------------
(* C5 *)

\* a reference "scheme://" followed by at least one segment
IsSchemeReference(p) ==
    LET split_path == Split(p, SLASH) IN
    /\ Len(split_path) >= 3
    /\ split_path[1] # <<>>
    /\ Last(split_path[1]) = ":"
    /\ split_path[2] = <<>>
    /\ split_path[3] # <<>>

\* the text after the final "." of a segment, empty when it has no "."
ExtensionOf(segment) ==
    IF Contains(segment, DOT) THEN Last(Split(segment, DOT)) ELSE <<>>

\* C5: for a remote reference s3://..., extract_s3_info returns the segment at
\* index 2 as bucket, the segments from index 3 on joined with "/" as key,
\* and as extension the text after the final "." of the last segment, which
\* is empty when the last segment has no ".".
C5_ExtractS3Info ==
    (Constructed /\ RemoteInput /\ IsSchemeReference(NormalizedInput)) =>
        LET split_path == Split(NormalizedInput, SLASH) IN
        extract_s3_info(NormalizedInput) =
            << split_path[3],
               Join(SubSeq(split_path, 4, Len(split_path)), SLASH),
               ExtensionOf(Last(split_path)) >>

-----------------------------------------------------------------------------
(* C6 *)

\* C6: for an input with ":/", fix_path keeps the scheme and the separator,
\* keeps every segment after the scheme in order (empty and "." segments
\* aside), keeps the "//" of "scheme://" and leaves no doubled slash between
\* segments.
C6_FixPathKeepsEverySegment ==
    (Constructed /\ Contains(orig_path, COLON_SLASH)) =>
        LET scheme == Before(orig_path, COLON_SLASH)
            rest   == After(orig_path, COLON_SLASH)
            out    == fix_path(orig_path)
            kept   == SubSeq(out, Len(scheme) + 3, Len(out))
        IN  /\ StartsWith(out, scheme \o COLON_SLASH)
            /\ SelectSeq(Split(kept, SLASH), IsNamedSegment)
                 = SelectSeq(Split(rest, SLASH), IsNamedSegment)
            /\ StartsWith(rest, SLASH) => StartsWith(kept, SLASH)
            /\ ~Contains(Tail(kept), SLASH \o SLASH)

-----------------------------------------------------------------------------
(* C7 *)

\* the non-empty segments after the scheme's ":"
SegmentsAfterScheme(p) ==
    SelectSeq(Split(After(p, <<":">>), SLASH), NonEmpty)

\* C7: a construction from a remote reference with fewer than 2 segments
\* after the scheme raises MalformedReferenceError, and the collaborator is
\* not called.
C7_MalformedReferenceIsTypedError ==
    (Constructed /\ RemoteInput /\ Len(SegmentsAfterScheme(NormalizedInput)) < 2) =>
        /\ exception = "MalformedReferenceError"
        /\ calls = <<>>

-----------------------------------------------------------------------------
(* C8 *)

\* C8 as claimed: after every successful construction and before __del__,
\* path names a file that exists, whatever the input was.
C8_ResolvedPathAlwaysExists ==
    pc = "constructed" => Exists(fs, path)

\* C8 as amended: after a successful construction from an input whose
\* normalized form starts with "s3:" and before __del__, path names a file
\* that exists (the temp file the object was downloaded into).
C8_S3ResolvedPathExists ==
    (pc = "constructed" /\ RemoteInput) =>
        /\ path # NormalizedInput
        /\ Exists(fs, path)

\* an s3 reference has been resolved to an existing local file
C8_Witness ==
    /\ pc = "constructed"
    /\ RemoteInput
    /\ orig_path = S3_COLON \o <<"/", "/", "a", "/", "b", ".", "c">>
    /\ path \in TempFilesOnDisk

-----------------------------------------------------------------------------
(* C9 *)

\* C9: the construction leaves the process-wide random state as it was
\* before it began on every exit path, also when it raises.
C9_RandomStateRestoredOnEveryExit ==
    [][(pc = "init" /\ pc' # "init") => random_state' = random_state]_vars

-----------------------------------------------------------------------------
(* C10 *)

\* C10: every temp file download_s3_file has allocated is recorded in
\* self.tmp_file, on every exit path, so that __del__ releases it.
C10_TempFileOwnedByInstance ==
    \A name \in TempFilesOnDisk :
        /\ tmp_file # None
        /\ tmp_file[1].name = name

=============================================================================
